---- MODULE Spec2Model ----
(***************************************************************************)
(* Model of the visual-content triage of document-scraping:                *)
(*   image_filter.py        ImageFilter         (OCR-driven value filter)  *)
(*   composite_detector.py  CompositeChartDetector                         *)
(*   extractor.py           DocumentExtractor.extract  (the orchestrator)  *)
(*                                                                         *)
(* Conventions.  Python None / an empty list is the empty sequence <<>>;   *)
(* an Optional[str] is <<>> (None) or <<text>> (set), a text being a       *)
(* sequence of one-character strings.  A filename "page{p}_img{i}.ext" is  *)
(* the pair <<p, i>>.  Floats that the code only compares are kept exact:  *)
(* a quotient a/b >= t is checked as a >= t*b, min_page_ratio is a pair    *)
(* <<num, den>>, a confidence is kept in hundredths (0.95 is 95).          *)
(***************************************************************************)
EXTENDS Integers, Sequences, FiniteSets, TLC

VARIABLES
    cfg,          \* the thresholds and switches read from config.json
    doc,          \* the document given to extract(): per page size, images,
                  \* image positions and text blocks (PyMuPDF's answers)
    pc,           \* position of the running call
    image_data,   \* extract(): the list image_data
    fidx,         \* filter_images: number of loop iterations completed
    valuable,     \* filter_images: list valuable
    discarded,    \* filter_images: list discarded
    flog,         \* per is_valuable_image call: its arguments and its result
    ocr_results,  \* extract(): filename -> digit_count handed to the detector
    didx,         \* enrich_images_with_context: loop iterations completed
    enriched,     \* enrich_images_with_context: list enriched_images
    dlog,         \* per detector iteration: the locals of that iteration
    ret           \* what the call returned, or the exception it raised

vars == <<cfg, doc, pc, image_data, fidx, valuable, discarded, flog,
          ocr_results, didx, enriched, dlog, ret>>

(***************************************************************************)
(* Small helpers.                                                          *)
(***************************************************************************)
Max(a, b) == IF a >= b THEN a ELSE b
Min(a, b) == IF a <= b THEN a ELSE b
Range(s) == {s[i] : i \in 1..Len(s)}

(***************************************************************************)
(* Configuration defaults (the second argument of each .get()).            *)
(***************************************************************************)
DefaultMinDigits == 2
DefaultMinWords == 5
DefaultMinTextDensity == 5
DefaultMinDimension == 100
DefaultMinArea == 10000
DefaultProximityMargin == 50
DefaultMinChartWidth == 200
DefaultMinChartHeight == 150
DefaultMinNearbyNumbers == 3
DefaultOcrNumberThreshold == 2
DefaultMinPageRatio == <<1, 10>>
\* the aspect-ratio limit of check_dimensions and the density scale
AspectLimit == 10
DensityScale == 10000

DefaultConfig ==
    [ filter_enabled       |-> TRUE,
      composite_enabled    |-> TRUE,
      min_digits           |-> DefaultMinDigits,
      min_words            |-> DefaultMinWords,
      min_text_density     |-> DefaultMinTextDensity,
      min_dimension        |-> DefaultMinDimension,
      min_area             |-> DefaultMinArea,
      require_numbers      |-> FALSE,
      proximity_margin     |-> DefaultProximityMargin,
      min_chart_width      |-> DefaultMinChartWidth,
      min_chart_height     |-> DefaultMinChartHeight,
      min_page_ratio       |-> DefaultMinPageRatio,
      min_nearby_numbers   |-> DefaultMinNearbyNumbers,
      ocr_number_threshold |-> DefaultOcrNumberThreshold ]

(***************************************************************************)
(* models.ImageData as extract_pdf builds it: bbox, context_text unset,    *)
(* is_composite False.                                                     *)
(***************************************************************************)
ImageData(page, idx, w, h) ==
    [ filename     |-> <<page, idx>>,
      page_number  |-> page,
      path         |-> <<page, idx>>,
      width        |-> w,
      height       |-> h,
      bbox         |-> <<>>,
      context_text |-> <<>>,
      is_composite |-> FALSE ]

(***************************************************************************)
(* ImageFilter                                                             *)
(***************************************************************************)
\* What pytesseract does for one image: it raises, or it yields words from
\* which analyze_image_ocr tallies its counts.
OcrRaises == [ raised |-> TRUE, chars |-> 0, digits |-> 0, words |-> 0, useful |-> 0 ]
OcrYields(c, d, w, u) ==
    [ raised |-> FALSE, chars |-> c, digits |-> d, words |-> w, useful |-> u ]

\* analyze_image_ocr: the OCRResult of the try body, or of the except branch.
\* (analyze_image_ocr_keeps_tallies: the variant whose except branch does not
\* reset the result.)
analyze_image_ocr_keeps_tallies(o) ==
    [ char_count        |-> o.chars,
      digit_count       |-> IF o.raised THEN 0 - 1 ELSE o.digits,
      word_count        |-> o.words,
      useful_word_count |-> o.useful,
      has_numbers       |-> o.raised \/ o.digits > 0 ]
analyze_image_ocr(o) ==
    IF o.raised
    THEN [ char_count |-> 0, digit_count |-> 0, word_count |-> 0,
           useful_word_count |-> 0, has_numbers |-> FALSE ]
    ELSE [ char_count |-> o.chars, digit_count |-> o.digits,
           word_count |-> o.words, useful_word_count |-> o.useful,
           has_numbers |-> o.digits > 0 ]

Reason(kind, args) == [ kind |-> kind, args |-> args ]
Arg(sig, val) == [ sig |-> sig, val |-> val ]

\* aspect_ratio = max(w, h) / max(1, min(w, h)); aspect_ratio > 10
aspect_extreme(w, h) == Max(w, h) > AspectLimit * Max(1, Min(w, h))

\* check_dimensions: (es_valida, razon)
\* (check_dimensions_any_side: the variant with `or` in the first test.)
check_dimensions_any_side(c, img) ==
    IF img.width < c.min_dimension \/ img.height < c.min_dimension
    THEN [ ok |-> FALSE,
           reason |-> Reason("Muy pequena",
                             <<Arg("width", img.width), Arg("height", img.height)>>) ]
    ELSE IF img.width * img.height < c.min_area
    THEN [ ok |-> FALSE,
           reason |-> Reason("Area insuficiente",
                             <<Arg("area", img.width * img.height)>>) ]
    ELSE IF aspect_extreme(img.width, img.height)
    THEN [ ok |-> FALSE, reason |-> Reason("Proporcion extrema", <<>>) ]
    ELSE [ ok |-> TRUE, reason |-> Reason("OK", <<>>) ]
\* (check_dimensions_area_first: the variant that tests the area first.)
check_dimensions_area_first(c, img) ==
    IF img.width * img.height < c.min_area
    THEN [ ok |-> FALSE,
           reason |-> Reason("Area insuficiente",
                             <<Arg("area", img.width * img.height)>>) ]
    ELSE IF img.width < c.min_dimension /\ img.height < c.min_dimension
    THEN [ ok |-> FALSE,
           reason |-> Reason("Muy pequena",
                             <<Arg("width", img.width), Arg("height", img.height)>>) ]
    ELSE IF aspect_extreme(img.width, img.height)
    THEN [ ok |-> FALSE, reason |-> Reason("Proporcion extrema", <<>>) ]
    ELSE [ ok |-> TRUE, reason |-> Reason("OK", <<>>) ]
\* (check_dimensions_no_area_test: the variant without the area test.)
check_dimensions_no_area_test(c, img) ==
    IF img.width < c.min_dimension /\ img.height < c.min_dimension
    THEN [ ok |-> FALSE,
           reason |-> Reason("Muy pequena",
                             <<Arg("width", img.width), Arg("height", img.height)>>) ]
    ELSE IF aspect_extreme(img.width, img.height)
    THEN [ ok |-> FALSE, reason |-> Reason("Proporcion extrema", <<>>) ]
    ELSE [ ok |-> TRUE, reason |-> Reason("OK", <<>>) ]
check_dimensions(c, img) ==
    IF img.width < c.min_dimension /\ img.height < c.min_dimension
    THEN [ ok |-> FALSE,
           reason |-> Reason("Muy pequena",
                             <<Arg("width", img.width), Arg("height", img.height)>>) ]
    ELSE IF img.width * img.height < c.min_area
    THEN [ ok |-> FALSE,
           reason |-> Reason("Area insuficiente",
                             <<Arg("area", img.width * img.height)>>) ]
    ELSE IF aspect_extreme(img.width, img.height)
    THEN [ ok |-> FALSE, reason |-> Reason("Proporcion extrema", <<>>) ]
    ELSE [ ok |-> TRUE, reason |-> Reason("OK", <<>>) ]

\* text_density = (char_count * 10000) / area if area > 0 else 0, compared
\* exactly: text_density >= t  iff  char_count * 10000 >= t * area.
density_at_least(chars, area, t) ==
    IF area > 0 THEN chars * DensityScale >= t * area ELSE 0 >= t
\* text_density as printed with one decimal: tenths, rounded to nearest
density_tenths(chars, area) ==
    IF area > 0 THEN (chars * DensityScale * 10 * 2 + area) \div (2 * area) ELSE 0

\* is_valuable_image, lines 276-283: the signals that failed, with their
\* values
\* (discard_reasons_first_only: the variant that names the first failed
\* signal only.)
discard_reasons_first_only(c, ocr, area) ==
    IF ~(ocr.digit_count >= c.min_digits) THEN <<Arg("nums", ocr.digit_count)>>
    ELSE IF ~(ocr.useful_word_count >= c.min_words)
    THEN <<Arg("palabras utiles", ocr.useful_word_count)>>
    ELSE IF ~density_at_least(ocr.char_count, area, c.min_text_density)
    THEN <<Arg("densidad", density_tenths(ocr.char_count, area))>>
    ELSE <<>>
discard_reasons(c, ocr, area) ==
    (IF ~(ocr.digit_count >= c.min_digits)
     THEN <<Arg("nums", ocr.digit_count)>> ELSE <<>>)
    \o (IF ~(ocr.useful_word_count >= c.min_words)
        THEN <<Arg("palabras utiles", ocr.useful_word_count)>> ELSE <<>>)
    \o (IF ~density_at_least(ocr.char_count, area, c.min_text_density)
        THEN <<Arg("densidad", density_tenths(ocr.char_count, area))>> ELSE <<>>)

\* is_valuable_image: (is_valuable, reason, ocr_result); ocr_result is <<>>
\* for Python's None.  o is what the OCR engine does if it is invoked, and
\* ocr_calls the number of analyze_image_ocr calls made.
\* (is_valuable_image_no_override: the variant without the 2*min_digits case.)
is_valuable_image_no_override(c, img, o) ==
    LET dims == check_dimensions(c, img)
        ocr  == analyze_image_ocr(o)
        area == img.width * img.height
        has_good_numbers == ocr.digit_count >= c.min_digits
        has_enough_words == ocr.useful_word_count >= c.min_words
        has_good_density == density_at_least(ocr.char_count, area, c.min_text_density)
        tenths == density_tenths(ocr.char_count, area)
        reasons ==
            (IF ~has_good_numbers THEN <<Arg("nums", ocr.digit_count)>> ELSE <<>>)
            \o (IF ~has_enough_words
                THEN <<Arg("palabras utiles", ocr.useful_word_count)>> ELSE <<>>)
            \o (IF ~has_good_density THEN <<Arg("densidad", tenths)>> ELSE <<>>)
    IN  IF ~dims.ok
        THEN [ keep |-> FALSE, reason |-> dims.reason, ocr |-> <<>>, ocr_calls |-> 0 ]
        ELSE IF c.require_numbers /\ ~has_good_numbers
        THEN [ keep |-> FALSE,
               reason |-> Reason("Sin numeros", <<Arg("digitos", ocr.digit_count)>>),
               ocr |-> <<ocr>>, ocr_calls |-> 1 ]
        ELSE IF has_good_numbers /\ has_good_density
        THEN [ keep |-> TRUE,
               reason |-> Reason("Grafico/tabla",
                                 <<Arg("nums", ocr.digit_count), Arg("densidad", tenths)>>),
               ocr |-> <<ocr>>, ocr_calls |-> 1 ]
        ELSE IF has_enough_words /\ has_good_density
        THEN [ keep |-> TRUE,
               reason |-> Reason("Contenido denso",
                                 <<Arg("palabras", ocr.useful_word_count),
                                   Arg("densidad", tenths)>>),
               ocr |-> <<ocr>>, ocr_calls |-> 1 ]
        ELSE [ keep |-> FALSE,
               reason |-> Reason("Probable logo/banner", reasons),
               ocr |-> <<ocr>>, ocr_calls |-> 1 ]
\* (is_valuable_image_few_digits: the variant whose 2*min_digits case compares
\* with <=.)
is_valuable_image_few_digits(c, img, o) ==
    LET dims == check_dimensions(c, img)
        ocr  == analyze_image_ocr(o)
        area == img.width * img.height
        has_good_numbers == ocr.digit_count >= c.min_digits
        has_enough_words == ocr.useful_word_count >= c.min_words
        has_good_density == density_at_least(ocr.char_count, area, c.min_text_density)
        tenths == density_tenths(ocr.char_count, area)
        reasons ==
            (IF ~has_good_numbers THEN <<Arg("nums", ocr.digit_count)>> ELSE <<>>)
            \o (IF ~has_enough_words
                THEN <<Arg("palabras utiles", ocr.useful_word_count)>> ELSE <<>>)
            \o (IF ~has_good_density THEN <<Arg("densidad", tenths)>> ELSE <<>>)
    IN  IF ~dims.ok
        THEN [ keep |-> FALSE, reason |-> dims.reason, ocr |-> <<>>, ocr_calls |-> 0 ]
        ELSE IF c.require_numbers /\ ~has_good_numbers
        THEN [ keep |-> FALSE,
               reason |-> Reason("Sin numeros", <<Arg("digitos", ocr.digit_count)>>),
               ocr |-> <<ocr>>, ocr_calls |-> 1 ]
        ELSE IF has_good_numbers /\ has_good_density
        THEN [ keep |-> TRUE,
               reason |-> Reason("Grafico/tabla",
                                 <<Arg("nums", ocr.digit_count), Arg("densidad", tenths)>>),
               ocr |-> <<ocr>>, ocr_calls |-> 1 ]
        ELSE IF has_enough_words /\ has_good_density
        THEN [ keep |-> TRUE,
               reason |-> Reason("Contenido denso",
                                 <<Arg("palabras", ocr.useful_word_count),
                                   Arg("densidad", tenths)>>),
               ocr |-> <<ocr>>, ocr_calls |-> 1 ]
        ELSE IF ocr.digit_count <= c.min_digits * 2
        THEN [ keep |-> TRUE,
               reason |-> Reason("Datos numericos", <<Arg("numeros", ocr.digit_count)>>),
               ocr |-> <<ocr>>, ocr_calls |-> 1 ]
        ELSE [ keep |-> FALSE,
               reason |-> Reason("Probable logo/banner", reasons),
               ocr |-> <<ocr>>, ocr_calls |-> 1 ]
\* (is_valuable_image_ocr_first: the variant that runs OCR before it looks at
\* the dimensions.)
is_valuable_image_ocr_first(c, img, o) ==
    LET dims == check_dimensions(c, img)
        ocr  == analyze_image_ocr(o)
        area == img.width * img.height
        has_good_numbers == ocr.digit_count >= c.min_digits
        has_enough_words == ocr.useful_word_count >= c.min_words
        has_good_density == density_at_least(ocr.char_count, area, c.min_text_density)
        tenths == density_tenths(ocr.char_count, area)
        reasons ==
            (IF ~has_good_numbers THEN <<Arg("nums", ocr.digit_count)>> ELSE <<>>)
            \o (IF ~has_enough_words
                THEN <<Arg("palabras utiles", ocr.useful_word_count)>> ELSE <<>>)
            \o (IF ~has_good_density THEN <<Arg("densidad", tenths)>> ELSE <<>>)
    IN  IF ~dims.ok
        THEN [ keep |-> FALSE, reason |-> dims.reason, ocr |-> <<ocr>>, ocr_calls |-> 1 ]
        ELSE IF c.require_numbers /\ ~has_good_numbers
        THEN [ keep |-> FALSE,
               reason |-> Reason("Sin numeros", <<Arg("digitos", ocr.digit_count)>>),
               ocr |-> <<ocr>>, ocr_calls |-> 1 ]
        ELSE IF has_good_numbers /\ has_good_density
        THEN [ keep |-> TRUE,
               reason |-> Reason("Grafico/tabla",
                                 <<Arg("nums", ocr.digit_count), Arg("densidad", tenths)>>),
               ocr |-> <<ocr>>, ocr_calls |-> 1 ]
        ELSE IF has_enough_words /\ has_good_density
        THEN [ keep |-> TRUE,
               reason |-> Reason("Contenido denso",
                                 <<Arg("palabras", ocr.useful_word_count),
                                   Arg("densidad", tenths)>>),
               ocr |-> <<ocr>>, ocr_calls |-> 1 ]
        ELSE IF ocr.digit_count >= c.min_digits * 2
        THEN [ keep |-> TRUE,
               reason |-> Reason("Datos numericos", <<Arg("numeros", ocr.digit_count)>>),
               ocr |-> <<ocr>>, ocr_calls |-> 1 ]
        ELSE [ keep |-> FALSE,
               reason |-> Reason("Probable logo/banner", reasons),
               ocr |-> <<ocr>>, ocr_calls |-> 1 ]
is_valuable_image(c, img, o) ==
    LET dims == check_dimensions(c, img)
        ocr  == analyze_image_ocr(o)
        area == img.width * img.height
        has_good_numbers == ocr.digit_count >= c.min_digits
        has_enough_words == ocr.useful_word_count >= c.min_words
        has_good_density == density_at_least(ocr.char_count, area, c.min_text_density)
        tenths == density_tenths(ocr.char_count, area)
        reasons == discard_reasons(c, ocr, area)
    IN  IF ~dims.ok
        THEN [ keep |-> FALSE, reason |-> dims.reason, ocr |-> <<>>, ocr_calls |-> 0 ]
        ELSE IF c.require_numbers /\ ~has_good_numbers
        THEN [ keep |-> FALSE,
               reason |-> Reason("Sin numeros", <<Arg("digitos", ocr.digit_count)>>),
               ocr |-> <<ocr>>, ocr_calls |-> 1 ]
        ELSE IF has_good_numbers /\ has_good_density
        THEN [ keep |-> TRUE,
               reason |-> Reason("Grafico/tabla",
                                 <<Arg("nums", ocr.digit_count), Arg("densidad", tenths)>>),
               ocr |-> <<ocr>>, ocr_calls |-> 1 ]
        ELSE IF has_enough_words /\ has_good_density
        THEN [ keep |-> TRUE,
               reason |-> Reason("Contenido denso",
                                 <<Arg("palabras", ocr.useful_word_count),
                                   Arg("densidad", tenths)>>),
               ocr |-> <<ocr>>, ocr_calls |-> 1 ]
        ELSE IF ocr.digit_count >= c.min_digits * 2
        THEN [ keep |-> TRUE,
               reason |-> Reason("Datos numericos", <<Arg("numeros", ocr.digit_count)>>),
               ocr |-> <<ocr>>, ocr_calls |-> 1 ]
        ELSE [ keep |-> FALSE,
               reason |-> Reason("Probable logo/banner", reasons),
               ocr |-> <<ocr>>, ocr_calls |-> 1 ]

\* One record of flog: the call's arguments, what the OCR engine did, the result.
FilterCall(c, img, o) ==
    LET r == is_valuable_image(c, img, o)
    IN  [ img |-> img, engine |-> o, ocr_calls |-> r.ocr_calls,
          keep |-> r.keep, reason |-> r.reason, ocr |-> r.ocr ]

\* filter_images, lines 302-309: the image goes to the end of one list
\* (filter_images_discards_first: the variant that puts a discard in front.)
filter_images_discards_first(v, d, img, keep) ==
    IF keep THEN [ valuable |-> Append(v, img), discarded |-> d ]
    ELSE [ valuable |-> v, discarded |-> <<img>> \o d ]
filter_images_append(v, d, img, keep) ==
    IF keep THEN [ valuable |-> Append(v, img), discarded |-> d ]
    ELSE [ valuable |-> v, discarded |-> Append(d, img) ]

(***************************************************************************)
(* CompositeChartDetector                                                  *)
(***************************************************************************)
Digits == {"0", "1", "2", "3", "4", "5", "6", "7", "8", "9"}
Whitespace == {" ", "\n"}

\* str.strip()
RECURSIVE lstrip(_)
lstrip(t) == IF t # <<>> /\ Head(t) \in Whitespace THEN lstrip(Tail(t)) ELSE t
RECURSIVE rstrip(_)
rstrip(t) ==
    IF t # <<>> /\ t[Len(t)] \in Whitespace THEN rstrip(SubSeq(t, 1, Len(t) - 1)) ELSE t
strip(t) == rstrip(lstrip(t))

\* " ".join(texts)
RECURSIVE join_space(_)
join_space(texts) ==
    IF texts = <<>> THEN <<>>
    ELSE IF Len(texts) = 1 THEN texts[1]
    ELSE texts[1] \o <<" ">> \o join_space(Tail(texts))

\* first index at or after i that holds no digit
RECURSIVE digits_end(_, _)
digits_end(t, i) == IF i <= Len(t) /\ t[i] \in Digits THEN digits_end(t, i + 1) ELSE i

\* end (exclusive) of the match of \d+(?:[.,]\d+)?%? that starts at digit i
number_end(t, i) ==
    LET j == digits_end(t, i)
        k == IF j + 1 <= Len(t) /\ t[j] \in {".", ","} /\ t[j + 1] \in Digits
             THEN digits_end(t, j + 1) ELSE j
    IN  IF k <= Len(t) /\ t[k] = "%" THEN k + 1 ELSE k

\* len(re.findall(r'\d+(?:[.,]\d+)?%?', text)), scanning from index i
RECURSIVE count_from(_, _)
count_from(t, i) ==
    IF i > Len(t) THEN 0
    ELSE IF t[i] \in Digits THEN 1 + count_from(t, number_end(t, i))
    ELSE count_from(t, i + 1)
\* _count_numbers_in_text
_count_numbers_in_text(t) == count_from(t, 1)

\* _boxes_overlap
\* (_boxes_overlap_left_strict: the variant whose first comparison is <=.)
_boxes_overlap_left_strict(box1, box2) ==
    ~( box1[3] <= box2[1] \/ box2[3] < box1[1] \/ box1[4] < box2[2] \/ box2[4] < box1[2] )
_boxes_overlap(box1, box2) ==
    ~( box1[3] < box2[1] \/ box2[3] < box1[1] \/ box1[4] < box2[2] \/ box2[4] < box1[2] )

\* _boxes_nearby
\* (_boxes_nearby_one_point: the variant that expands by at least one point.)
_boxes_nearby_one_point(box1, box2, margin) ==
    _boxes_overlap(<<box1[1] - Max(1, margin), box1[2] - Max(1, margin),
                     box1[3] + Max(1, margin), box1[4] + Max(1, margin)>>, box2)
_boxes_nearby(box1, box2, margin) ==
    _boxes_overlap(<<box1[1] - margin, box1[2] - margin,
                     box1[3] + margin, box1[4] + margin>>, box2)

\* (_is_potential_chart_pixels_only: the variant without the page ratio.)
_is_potential_chart_pixels_only(c, image, page_width, page_height) ==
    ~(image.width < c.min_chart_width \/ image.height < c.min_chart_height)
\* _is_potential_chart; (img_area / page_area) < min_page_ratio is compared
\* exactly, min_page_ratio being <<num, den>>.
_is_potential_chart(c, image, page_width, page_height) ==
    IF image.width < c.min_chart_width \/ image.height < c.min_chart_height
    THEN FALSE
    ELSE IF image.bbox # <<>>
    THEN LET page_area == page_width * page_height
             img_area  == (image.bbox[3] - image.bbox[1]) * (image.bbox[4] - image.bbox[2])
         IN  ~( page_area > 0
                /\ img_area * c.min_page_ratio[2] < c.min_page_ratio[1] * page_area )
    ELSE TRUE

\* the texts of the blocks of text_blocks that satisfy test, in page order
\* (texts_where_nearby_too: the variant with `if` for the `elif` of line 227.)
RECURSIVE texts_where_nearby_too(_, _, _, _)
texts_where_nearby_too(c, img_bbox, text_blocks, overlapping) ==
    IF text_blocks = <<>> THEN <<>>
    ELSE LET block == Head(text_blocks)
             over  == _boxes_overlap(img_bbox, block.bbox)
             near  == _boxes_nearby(img_bbox, block.bbox, c.proximity_margin)
             rest  == texts_where_nearby_too(c, img_bbox, Tail(text_blocks), overlapping)
         IN  IF (overlapping /\ over) \/ (~overlapping /\ near)
             THEN <<block.text>> \o rest ELSE rest
RECURSIVE texts_where(_, _, _, _)
texts_where(c, img_bbox, text_blocks, overlapping) ==
    IF text_blocks = <<>> THEN <<>>
    ELSE LET block == Head(text_blocks)
             over  == _boxes_overlap(img_bbox, block.bbox)
             near  == ~over /\ _boxes_nearby(img_bbox, block.bbox, c.proximity_margin)
             rest  == texts_where(c, img_bbox, Tail(text_blocks), overlapping)
         IN  IF (overlapping /\ over) \/ (~overlapping /\ near)
             THEN <<block.text>> \o rest ELSE rest

\* the confidence of find_context_for_image from the number count
\* (number_confidence_tiers_swapped: the variant with 0.7 and 0.4 exchanged.)
number_confidence_tiers_swapped(c, num_count) ==
    IF num_count >= c.min_nearby_numbers * 2 THEN 90
    ELSE IF num_count >= c.min_nearby_numbers THEN 40
    ELSE IF num_count >= 1 THEN 70
    ELSE 10
number_confidence(c, num_count) ==
    IF num_count >= c.min_nearby_numbers * 2 THEN 90
    ELSE IF num_count >= c.min_nearby_numbers THEN 70
    ELSE IF num_count >= 1 THEN 40
    ELSE 10

\* find_context_for_image: (nearby_text, overlapping_text, confidence)
find_context_for_image(c, image, text_blocks) ==
    IF image.bbox = <<>>
    THEN [ nearby_text |-> <<>>, overlapping_text |-> <<>>, confidence |-> 0 ]
    ELSE LET overlapping_text == join_space(texts_where(c, image.bbox, text_blocks, TRUE))
             nearby_text == join_space(texts_where(c, image.bbox, text_blocks, FALSE))
             all_context_text == overlapping_text \o <<" ">> \o nearby_text
         IN  [ nearby_text |-> nearby_text,
               overlapping_text |-> overlapping_text,
               confidence |->
                   number_confidence(c, _count_numbers_in_text(all_context_text)) ]

\* {xref: bbox for xref, bbox in positions}, then list(... .values()): one
\* bbox per distinct xref, in the order the xrefs first occur, each the bbox
\* of the last occurrence of its xref.
last_bbox_of(positions, xref) ==
    positions[CHOOSE i \in 1..Len(positions) :
                /\ positions[i][1] = xref
                /\ \A j \in (i + 1)..Len(positions) : positions[j][1] # xref][2]
RECURSIVE dict_values(_, _)
dict_values(positions, i) ==
    IF i > Len(positions) THEN <<>>
    ELSE IF \E j \in 1..(i - 1) : positions[j][1] = positions[i][1]
    THEN dict_values(positions, i + 1)
    ELSE <<last_bbox_of(positions, positions[i][1])>> \o dict_values(positions, i + 1)

\* filename -> digit_count maps are lists of <<filename, digit_count>>
HasKey(m, k) == \E i \in 1..Len(m) : m[i][1] = k
Lookup(m, k) == m[CHOOSE i \in 1..Len(m) : m[i][1] = k][2]

\* int(re.search(r'img(\d+)', filename).group(1)), else 0: the image index
\* that extract_pdf wrote into the filename
img_idx_of(filename) == filename[2]

SobreImagen == <<"[SOBRE IMAGEN]: ">>
CercaDeImagen == <<"[CERCA DE IMAGEN]: ">>

\* the composite decision of enrich_images_with_context (lines 326-333):
\* (is_composite, confidence)
\* (composite_decision_uncapped: the variant without the 0.95 cap.)
composite_decision_uncapped(c, is_potential, context_numbers, ocr_numbers, confidence) ==
    IF is_potential /\ context_numbers >= c.min_nearby_numbers
    THEN IF ocr_numbers < c.ocr_number_threshold
         THEN [ is_composite |-> TRUE, confidence |-> confidence + 20 ]
         ELSE IF context_numbers >= c.min_nearby_numbers * 2
         THEN [ is_composite |-> TRUE, confidence |-> confidence ]
         ELSE [ is_composite |-> FALSE, confidence |-> confidence ]
    ELSE [ is_composite |-> FALSE, confidence |-> confidence ]
\* (composite_decision_any_size: the variant that forgets is_potential.)
composite_decision_any_size(c, is_potential, context_numbers, ocr_numbers, confidence) ==
    IF context_numbers >= c.min_nearby_numbers
    THEN IF ocr_numbers < c.ocr_number_threshold
         THEN [ is_composite |-> TRUE, confidence |-> Min(95, confidence + 20) ]
         ELSE IF context_numbers >= c.min_nearby_numbers * 2
         THEN [ is_composite |-> TRUE, confidence |-> confidence ]
         ELSE [ is_composite |-> FALSE, confidence |-> confidence ]
    ELSE [ is_composite |-> FALSE, confidence |-> confidence ]
\* (composite_decision_off_by_one: the variant whose first test is one short.)
composite_decision_off_by_one(c, is_potential, context_numbers, ocr_numbers, confidence) ==
    IF is_potential /\ context_numbers >= c.min_nearby_numbers - 1
    THEN IF ocr_numbers < c.ocr_number_threshold
         THEN [ is_composite |-> TRUE, confidence |-> Min(95, confidence + 20) ]
         ELSE IF context_numbers >= c.min_nearby_numbers * 2
         THEN [ is_composite |-> TRUE, confidence |-> confidence ]
         ELSE [ is_composite |-> FALSE, confidence |-> confidence ]
    ELSE [ is_composite |-> FALSE, confidence |-> confidence ]
\* (composite_decision_whatever_ocr: the variant without the OCR test.)
composite_decision_whatever_ocr(c, is_potential, context_numbers, ocr_numbers, confidence) ==
    IF is_potential /\ context_numbers >= c.min_nearby_numbers
    THEN [ is_composite |-> TRUE, confidence |-> Min(95, confidence + 20) ]
    ELSE [ is_composite |-> FALSE, confidence |-> confidence ]
composite_decision(c, is_potential, context_numbers, ocr_numbers, confidence) ==
    IF is_potential /\ context_numbers >= c.min_nearby_numbers
    THEN IF ocr_numbers < c.ocr_number_threshold
         THEN [ is_composite |-> TRUE, confidence |-> Min(95, confidence + 20) ]
         ELSE IF context_numbers >= c.min_nearby_numbers * 2
         THEN [ is_composite |-> TRUE, confidence |-> confidence ]
         ELSE [ is_composite |-> FALSE, confidence |-> confidence ]
    ELSE [ is_composite |-> FALSE, confidence |-> confidence ]

\* lines 337-343: context_parts and "\n".join(context_parts)
\* (build_context_text_nearby_first: the variant that lists the nearby group
\* before the overlapping one.)
build_context_text_nearby_first(overlapping_text, nearby_text) ==
    LET over == strip(overlapping_text)
        near == strip(nearby_text)
        context_parts ==
            (IF near # <<>> THEN <<CercaDeImagen \o near>> ELSE <<>>)
            \o (IF over # <<>> THEN <<SobreImagen \o over>> ELSE <<>>)
    IN  IF context_parts = <<>> THEN <<>>
        ELSE IF Len(context_parts) = 1 THEN context_parts[1]
        ELSE context_parts[1] \o <<"\n">> \o context_parts[2]
build_context_text(overlapping_text, nearby_text) ==
    LET over == strip(overlapping_text)
        near == strip(nearby_text)
        context_parts ==
            (IF over # <<>> THEN <<SobreImagen \o over>> ELSE <<>>)
            \o (IF near # <<>> THEN <<CercaDeImagen \o near>> ELSE <<>>)
    IN  IF context_parts = <<>> THEN <<>>
        ELSE IF Len(context_parts) = 1 THEN context_parts[1]
        ELSE context_parts[1] \o <<"\n">> \o context_parts[2]

\* lines 321-323: ocr_numbers = 0, replaced by the map's entry when a
\* non-empty map is given and holds the filename
\* (ocr_numbers_of_absent_is_many: the variant where an image without an
\* entry counts as one whose OCR found many numbers.)
ocr_numbers_of_absent_is_many(ocr, filename) ==
    IF ocr # <<>> /\ HasKey(ocr, filename)
    THEN Lookup(ocr, filename) ELSE 100
ocr_numbers_of(ocr, filename) ==
    IF ocr # <<>> /\ HasKey(ocr, filename)
    THEN Lookup(ocr, filename) ELSE 0

\* One iteration of the loop of enrich_images_with_context over img, for the
\* document d and the map ocr: the image as the iteration leaves it, and the
\* iteration's locals.
enrich_image(c, d, img, ocr) ==
    LET page == img.page_number
        page_width  == d.size[1][1]
        page_height == d.size[1][2]
        positions == IF page \in 1..Len(d.pos) THEN d.pos[page] ELSE <<>>
        positions_list == dict_values(positions, 1)
        img_idx == img_idx_of(img.filename)
        bbox == IF img.bbox = <<>> /\ positions_list # <<>>
                   /\ img_idx < Len(positions_list)
                THEN positions_list[img_idx + 1] ELSE img.bbox
        img1 == [ img EXCEPT !.bbox = bbox ]
        text_blocks == IF page \in 1..Len(d.blocks) THEN d.blocks[page] ELSE <<>>
        ctx == find_context_for_image(c, img1, text_blocks)
        is_potential == _is_potential_chart(c, img1, page_width, page_height)
        total_context == ctx.overlapping_text \o <<" ">> \o ctx.nearby_text
        context_numbers == _count_numbers_in_text(total_context)
        ocr_numbers == ocr_numbers_of(ocr, img.filename)
        dec == composite_decision(c, is_potential, context_numbers, ocr_numbers,
                                  ctx.confidence)
        context_text == build_context_text(ctx.overlapping_text, ctx.nearby_text)
        img2 == IF dec.is_composite \/ strip(ctx.overlapping_text) # <<>>
                                    \/ strip(ctx.nearby_text) # <<>>
                THEN [ img1 EXCEPT !.context_text = <<context_text>>,
                                   !.is_composite = dec.is_composite ]
                ELSE img1
    IN  [ img |-> img2,
          locals |-> [ before |-> img,
                       page_width |-> page_width,
                       page_height |-> page_height,
                       nearby_text |-> ctx.nearby_text,
                       overlapping_text |-> ctx.overlapping_text,
                       number_confidence |-> ctx.confidence,
                       is_potential |-> is_potential,
                       context_numbers |-> context_numbers,
                       ocr_numbers |-> ocr_numbers,
                       is_composite |-> dec.is_composite,
                       confidence |-> dec.confidence ] ]

(***************************************************************************)
(* Inputs of a single is_valuable_image call.                              *)
(***************************************************************************)
ValuableWidths == {0, 50, 99, 100, 1000, 1001}
ValuableHeights == {0, 50, 100, 200}
ValuableImages ==
    { ImageData(1, 0, w, h) : w \in ValuableWidths, h \in ValuableHeights }
        \cup { ImageData(1, 0, 800, 600) }

\* The tallies analyze_image_ocr can compute from one word list: a digit is
\* a character, a useful word has more than two characters, words are
\* non-empty and there is none without a character.
OcrEngine ==
    {OcrRaises} \cup
    { OcrYields(c, d, w, u) :
        c \in {0, 4, 5, 10, 15, 240}, d \in {0, 1, 2, 4, 6}, w \in 0..6, u \in {0, 4, 5} }
OcrEngineOutcomes ==
    { o \in OcrEngine :
        \/ o.raised
        \/ /\ o.digits <= o.chars
           /\ 3 * o.useful <= o.chars
           /\ o.words \in {o.useful, o.useful + 1}
           /\ o.words <= o.chars
           /\ (o.chars > 0 => o.words > 0) }

ValuableConfigs ==
    { [ DefaultConfig EXCEPT !.min_digits = md, !.min_words = mw,
                             !.min_text_density = mt, !.min_dimension = g[1],
                             !.min_area = g[2], !.require_numbers = rn ] :
        md \in {DefaultMinDigits, 0, 3}, mw \in {DefaultMinWords, 4},
        mt \in {DefaultMinTextDensity, 0},
        g \in { <<DefaultMinDimension, DefaultMinArea>>,
                <<DefaultMinDimension, 0>>, <<0, DefaultMinArea>>, <<0, 0>> },
        rn \in BOOLEAN }

NoDoc == [ ext |-> "", size |-> <<>>, imgs |-> <<>>, pos |-> <<>>, blocks |-> <<>> ]

\* The state after ImageFilter(config_path): the thresholds are loaded.
InitValuable ==
    /\ cfg \in ValuableConfigs
    /\ doc = NoDoc
    /\ pc = "is_valuable_image"
    /\ image_data = <<>>
    /\ fidx = 0
    /\ valuable = <<>>
    /\ discarded = <<>>
    /\ flog = <<>>
    /\ ocr_results = <<>>
    /\ didx = 0
    /\ enriched = <<>>
    /\ dlog = <<>>
    /\ ret = <<>>

\* One call is_valuable_image(image_data) with any image and any OCR outcome.
CallIsValuableImage ==
    /\ pc = "is_valuable_image"
    /\ \E img \in ValuableImages, o \in OcrEngineOutcomes :
         /\ image_data' = <<img>>
         /\ flog' = <<FilterCall(cfg, img, o)>>
    /\ pc' = "returned"
    /\ UNCHANGED <<cfg, doc, fidx, valuable, discarded, ocr_results, didx,
                   enriched, dlog, ret>>

NextValuable == CallIsValuableImage

SpecValuable == InitValuable /\ [][NextValuable]_vars

(***************************************************************************)
(* DocumentExtractor.extract_pdf: the ImageData of every image of every    *)
(* page, in page order, named page{p}_img{i} with i counted from 0.        *)
(***************************************************************************)
page_images(d, p) ==
    [ i \in 1..Len(d.imgs[p]) |->
        ImageData(p, i - 1, d.imgs[p][i].width, d.imgs[p][i].height) ]
RECURSIVE extract_from(_, _)
extract_from(d, p) ==
    IF p > Len(d.imgs) THEN <<>> ELSE page_images(d, p) \o extract_from(d, p + 1)
extract_pdf(d) == extract_from(d, 1)

(***************************************************************************)
(* Inputs of a single enrich_images_with_context call.                     *)
(***************************************************************************)
MaxImages == 1
MaxBlocks == 2

SeqsUpTo(S, n) == UNION { [1..k -> S] : k \in 0..n }

LetterPage == <<612, 792>>
Pixels(w, h) == [ width |-> w, height |-> h ]
\* decoded sizes: a chart-sized image, one too narrow, one too low
DetectorPixels == { Pixels(300, 200), Pixels(199, 200), Pixels(300, 149) }

\* page positions: 300x200 pt is 12% of a letter page, 200x200 pt is 8%
BigBox == <<100, 100, 400, 300>>
SmallBox == <<100, 100, 300, 300>>
\* BigBox with its corners exchanged: x1 < x0 and y1 < y0
FlippedBox == <<400, 300, 100, 100>>
PositionLists ==
    { <<>>,
      << <<1, FlippedBox>> >>,
      << <<1, BigBox>> >>,
      << <<1, SmallBox>> >>,
      << <<1, BigBox>>, <<2, SmallBox>> >>,
      << <<1, SmallBox>>, <<2, BigBox>> >>,
      << <<1, BigBox>>, <<1, SmallBox>> >> }

TextBlock(text, bbox) == [ text |-> text, bbox |-> bbox ]
Percentages == <<"4", "5", "%", " ", "6", "0", "%", " ", "1", "2", "%">>
OneDecimal == <<"1", ".", "5">>
EightNumbers ==
    <<"1", " ", "2", " ", "3", " ", "4", " ", "5", " ", "6", " ", "7", " ", "8">>
Word == <<"a">>
\* blocks placed against BigBox: inside it, within the proximity margin
\* beside and below it, and far below it
DetectorBlocks ==
    { TextBlock(Percentages, <<110, 110, 390, 290>>),
      TextBlock(Word, <<110, 110, 390, 290>>),
      TextBlock(OneDecimal, <<410, 100, 500, 120>>),
      TextBlock(EightNumbers, <<100, 310, 400, 340>>),
      TextBlock(Percentages, <<100, 500, 400, 520>>) }

\* a page holds no block twice
Distinct(seq) == \A i, j \in 1..Len(seq) : i # j => seq[i] # seq[j]
DetectorBlockLists == { bl \in SeqsUpTo(DetectorBlocks, MaxBlocks) : Distinct(bl) }

\* a page of half the width and height of a letter page
HalfLetterPage == <<306, 396>>
\* one-page documents, and documents whose first page, a letter page, is
\* empty and whose second page is a small one that holds the images, the
\* first of them at SmallBox
DetectorDocs ==
    { [ ext |-> ".pdf", size |-> <<LetterPage>>, imgs |-> <<il>>, pos |-> <<pl>>,
        blocks |-> <<bl>> ] :
        il \in SeqsUpTo(DetectorPixels, MaxImages),
        pl \in PositionLists,
        bl \in DetectorBlockLists }
    \cup
    { [ ext |-> ".pdf", size |-> <<LetterPage, HalfLetterPage>>, imgs |-> << <<>>, il >>,
        pos |-> << <<>>, << <<1, SmallBox>> >> >>, blocks |-> << <<>>, bl >> ] :
        il \in SeqsUpTo(DetectorPixels, MaxImages) \ { <<>> },
        bl \in { <<>>, << TextBlock(Percentages, <<110, 110, 290, 290>>) >> } }

\* page1_img7: an image that went through OCR and was not handed over
DiscardedFilename == <<1, 7>>
\* every filename -> digit_count map over (some of) the images
RECURSIVE ocr_maps(_)
ocr_maps(images) ==
    IF images = <<>> THEN { <<>> }
    ELSE LET rest == ocr_maps(Tail(images))
         IN  rest \cup { << <<Head(images).filename, n>> >> \o m :
                           n \in {1, 2}, m \in rest }

\* a map whose only entry is of an image the filter discarded
OnlyDiscarded == << <<DiscardedFilename, 1>> >>

DetectorConfigs ==
    { [ DefaultConfig EXCEPT !.min_nearby_numbers = t[1], !.ocr_number_threshold = t[2],
                             !.proximity_margin = t[3] ] :
        t \in { <<DefaultMinNearbyNumbers, DefaultOcrNumberThreshold, DefaultProximityMargin>>,
                <<DefaultMinNearbyNumbers, 0, DefaultProximityMargin>>,
                <<1, DefaultOcrNumberThreshold, DefaultProximityMargin>>,
                <<1, 0, DefaultProximityMargin>>,
                <<0, DefaultOcrNumberThreshold, DefaultProximityMargin>>,
                <<DefaultMinNearbyNumbers, DefaultOcrNumberThreshold, 0>> } }

\* The state after CompositeChartDetector(config_path), with the arguments
\* of the call: the images extract_pdf found in the document, and a map.
InitDetector ==
    /\ cfg \in DetectorConfigs
    /\ doc \in DetectorDocs
    /\ pc = "enrich"
    /\ image_data = extract_pdf(doc)
    /\ fidx = 0
    /\ valuable = <<>>
    /\ discarded = <<>>
    /\ flog = <<>>
    /\ ocr_results \in ocr_maps(image_data) \cup { OnlyDiscarded }
    /\ didx = 0
    /\ enriched = <<>>
    /\ dlog = <<>>
    /\ ret = <<>>

Returned(images) == [ kind |-> "return", images |-> images ]

\* enrich_images_with_context, lines 264-265: nothing to enrich
EnrichNothing ==
    /\ pc = "enrich"
    /\ image_data = <<>>
    /\ pc' = "enrich_returned"
    /\ ret' = <<Returned(image_data)>>
    /\ UNCHANGED <<cfg, doc, image_data, fidx, valuable, discarded, flog,
                   ocr_results, didx, enriched, dlog>>

\* enrich_images_with_context, lines 290-353: one iteration of the loop.  The
\* image object is updated in place and appended to enriched_images.
EnrichStep ==
    /\ pc = "enrich"
    /\ didx < Len(image_data)
    /\ LET r == enrich_image(cfg, doc, image_data[didx + 1], ocr_results)
       IN  /\ image_data' = [ image_data EXCEPT ![didx + 1] = r.img ]
           /\ enriched' = Append(enriched, r.img)
           /\ dlog' = Append(dlog, r.locals)
    /\ didx' = didx + 1
    /\ UNCHANGED <<cfg, doc, pc, fidx, valuable, discarded, flog, ocr_results, ret>>

\* enrich_images_with_context, line 358
EnrichReturn ==
    /\ pc = "enrich"
    /\ image_data # <<>>
    /\ didx = Len(image_data)
    /\ pc' = "enrich_returned"
    /\ ret' = <<Returned(enriched)>>
    /\ UNCHANGED <<cfg, doc, image_data, fidx, valuable, discarded, flog,
                   ocr_results, didx, enriched, dlog>>

NextDetector == EnrichNothing \/ EnrichStep \/ EnrichReturn

SpecDetector == InitDetector /\ [][NextDetector]_vars

(***************************************************************************)
(* Two filters whose configurations differ in min_digits and min_words     *)
(* only, on the same image with the same OCR tallies.                      *)
(***************************************************************************)
MaxRaise == 2

\* an icon, a square at the minimum area, a wide picture
RaiseImages == { ImageData(1, 0, 50, 50), ImageData(1, 0, 100, 100),
                 ImageData(1, 0, 1000, 200) }
Raises == { r \in (0..MaxRaise) \X (0..MaxRaise) : r # <<0, 0>> }
RaisedConfig(c, r) ==
    [ c EXCEPT !.min_digits = c.min_digits + r[1], !.min_words = c.min_words + r[2] ]

\* The state after ImageFilter(config_path) for each of the two
\* configurations, cfg and the one that doc.raise makes of it.
InitRaise ==
    /\ cfg \in ValuableConfigs
    /\ doc \in { [ ext |-> "", size |-> <<>>, imgs |-> <<>>, pos |-> <<>>, blocks |-> <<>>,
                    raise |-> r ] : r \in Raises }
    /\ pc = "is_valuable_image"
    /\ image_data = <<>>
    /\ fidx = 0
    /\ valuable = <<>>
    /\ discarded = <<>>
    /\ flog = <<>>
    /\ ocr_results = <<>>
    /\ didx = 0
    /\ enriched = <<>>
    /\ dlog = <<>>
    /\ ret = <<>>

\* is_valuable_image(image_data) by both filters, the OCR engine doing the
\* same thing in both calls
CallBothFilters ==
    /\ pc = "is_valuable_image"
    /\ \E img \in RaiseImages, o \in OcrEngineOutcomes :
         /\ image_data' = <<img>>
         /\ flog' = << FilterCall(cfg, img, o),
                       FilterCall(RaisedConfig(cfg, doc.raise), img, o) >>
    /\ pc' = "returned"
    /\ UNCHANGED <<cfg, doc, fidx, valuable, discarded, ocr_results, didx,
                   enriched, dlog, ret>>

NextRaise == CallBothFilters

SpecRaise == InitRaise /\ [][NextRaise]_vars

(***************************************************************************)
(* Inputs of single _boxes_overlap and _boxes_nearby calls.                *)
(***************************************************************************)
MaxCoord == 2
MaxMargin == 1

\* bounding boxes <<x0, y0, x1, y1>> on a small grid, the degenerate and the
\* malformed ones (x1 < x0, y1 < y0) included
Boxes == { <<x0, y0, x1, y1>> : x0 \in 0..MaxCoord, y0 \in 0..MaxCoord,
                                x1 \in 0..MaxCoord, y1 \in 0..MaxCoord }

\* The arguments of the calls: two boxes and a margin.
InitBoxes ==
    /\ cfg = DefaultConfig
    /\ doc \in { [ ext |-> "", size |-> <<>>, imgs |-> <<>>, pos |-> <<>>, blocks |-> <<>>,
                    box1 |-> a, box2 |-> b, margin |-> m ] :
                    a \in Boxes, b \in Boxes, m \in 0..MaxMargin }
    /\ pc = "_boxes_overlap"
    /\ image_data = <<>>
    /\ fidx = 0
    /\ valuable = <<>>
    /\ discarded = <<>>
    /\ flog = <<>>
    /\ ocr_results = <<>>
    /\ didx = 0
    /\ enriched = <<>>
    /\ dlog = <<>>
    /\ ret = <<>>

\* _boxes_overlap(box1, box2) and _boxes_overlap(box2, box1)
CallBoxesOverlap ==
    /\ pc = "_boxes_overlap"
    /\ ret' = << [ overlap |-> _boxes_overlap(doc.box1, doc.box2),
                   swapped |-> _boxes_overlap(doc.box2, doc.box1) ] >>
    /\ pc' = "_boxes_nearby"
    /\ UNCHANGED <<cfg, doc, image_data, fidx, valuable, discarded, flog,
                   ocr_results, didx, enriched, dlog>>

\* _boxes_nearby(box1, box2, margin)
CallBoxesNearby ==
    /\ pc = "_boxes_nearby"
    /\ ret' = Append(ret, [ nearby |-> _boxes_nearby(doc.box1, doc.box2, doc.margin) ])
    /\ pc' = "returned"
    /\ UNCHANGED <<cfg, doc, image_data, fidx, valuable, discarded, flog,
                   ocr_results, didx, enriched, dlog>>

NextBoxes == CallBoxesOverlap \/ CallBoxesNearby

SpecBoxes == InitBoxes /\ [][NextBoxes]_vars

(***************************************************************************)
(* DocumentExtractor.extract                                               *)
(***************************************************************************)
MaxDocImages == 2

\* extract_pptx names its images slide{n}_img{i}; they are kept as <<n, i>>
extract_pptx(d) == extract_from(d, 1)

Raised(exc) == [ kind |-> "raise", exc |-> exc, images |-> <<>> ]

\* line 152: self.filter_enabled and self.image_filter and image_data
filter_applies(c, images) == c.filter_enabled /\ images # <<>>
\* line 169
detector_applies(c, ext, images) == c.composite_enabled /\ images # <<>> /\ ext = ".pdf"

\* line 157, self.image_filter.get_ocr_results(): ImageFilter defines no
\* such method (image_filter.py:32-315), so the call raises AttributeError.
get_ocr_results(log) == [ raised |-> TRUE, map |-> <<>> ]

\* lines 153-166, after filter_images has returned: the map is fetched, the
\* files of the discarded images are unlinked, image_data becomes the kept
\* list.
\* (hand_off_keeps_all: the variant that fetches no map and goes on with
\* every extracted image.)
hand_off_keeps_all(images, kept, log) ==
    [ raised |-> FALSE, image_data |-> images, ocr_results |-> <<>> ]
hand_off(images, kept, log) ==
    LET got == get_ocr_results(log)
    IN  IF got.raised
        THEN [ raised |-> TRUE, image_data |-> images, ocr_results |-> <<>> ]
        ELSE [ raised |-> FALSE, image_data |-> kept, ocr_results |-> got.map ]

\* documents: one letter page with up to MaxDocImages images, an icon or a
\* chart-sized picture each; no image has a place on the page, or only the
\* second has (at BigBox), or the first two have
OrchestratorPixels == { Pixels(50, 50), Pixels(300, 200) }
OrchestratorDocs ==
    { [ ext |-> e, size |-> <<LetterPage>>, imgs |-> <<il>>, pos |-> <<pl>>,
        blocks |-> <<bl>> ] :
        e \in {".pdf", ".pptx", ".txt"},
        il \in SeqsUpTo(OrchestratorPixels, MaxDocImages),
        pl \in { <<>>, << <<2, BigBox>> >>, << <<1, BigBox>>, <<2, BigBox>> >> },
        bl \in { <<>>, << TextBlock(Percentages, <<110, 110, 390, 290>>) >> } }
\* what the OCR engine may do on a picture: fail, or read a table (digits
\* and density), a paragraph (words and density, no digit), a logo
OrchestratorOcr ==
    { OcrRaises, OcrYields(40, 4, 6, 5), OcrYields(40, 0, 6, 5), OcrYields(4, 1, 1, 0) }
OrchestratorConfigs ==
    { [ DefaultConfig EXCEPT !.filter_enabled = fe, !.composite_enabled = ce ] :
        fe \in BOOLEAN, ce \in BOOLEAN }

\* The state after DocumentExtractor(config_path); extract(file_path) is about
\* to run on some document.
Init ==
    /\ cfg \in OrchestratorConfigs
    /\ doc \in OrchestratorDocs
    /\ pc = "extract"
    /\ image_data = <<>>
    /\ fidx = 0
    /\ valuable = <<>>
    /\ discarded = <<>>
    /\ flog = <<>>
    /\ ocr_results = <<>>
    /\ didx = 0
    /\ enriched = <<>>
    /\ dlog = <<>>
    /\ ret = <<>>

\* lines 139-149: extraction by file type
Extract ==
    /\ pc = "extract"
    /\ IF doc.ext = ".pdf"
       THEN image_data' = extract_pdf(doc) /\ pc' = "filter_check" /\ ret' = ret
       ELSE IF doc.ext \in {".ppt", ".pptx"}
       THEN image_data' = extract_pptx(doc) /\ pc' = "filter_check" /\ ret' = ret
       ELSE image_data' = image_data /\ pc' = "raised" /\ ret' = <<Raised("ValueError")>>
    /\ UNCHANGED <<cfg, doc, fidx, valuable, discarded, flog, ocr_results, didx,
                   enriched, dlog>>

\* line 152, condition false
FilterSkip ==
    /\ pc = "filter_check"
    /\ ~filter_applies(cfg, image_data)
    /\ pc' = "detect_check"
    /\ UNCHANGED <<cfg, doc, image_data, fidx, valuable, discarded, flog,
                   ocr_results, didx, enriched, dlog, ret>>

\* line 153: filter_images is entered (image_filter.py:294-297)
FilterStart ==
    /\ pc = "filter_check"
    /\ filter_applies(cfg, image_data)
    /\ pc' = "filter"
    /\ valuable' = <<>>
    /\ discarded' = <<>>
    /\ UNCHANGED <<cfg, doc, image_data, fidx, flog, ocr_results, didx, enriched,
                   dlog, ret>>

\* filter_images, lines 299-309: one iteration of the loop, the OCR engine
\* doing any of the things it may do
FilterStep ==
    /\ pc = "filter"
    /\ fidx < Len(image_data)
    /\ \E o \in OrchestratorOcr :
         LET img  == image_data[fidx + 1]
             call == FilterCall(cfg, img, o)
             next == filter_images_append(valuable, discarded, img, call.keep)
         IN  /\ flog' = Append(flog, call)
             /\ valuable' = next.valuable
             /\ discarded' = next.discarded
    /\ fidx' = fidx + 1
    /\ UNCHANGED <<cfg, doc, pc, image_data, ocr_results, didx, enriched, dlog, ret>>

\* filter_images returns (line 315) and extract goes on with lines 153-166
FilterHandOff ==
    /\ pc = "filter"
    /\ fidx = Len(image_data)
    /\ LET h == hand_off(image_data, valuable, flog)
       IN  IF h.raised
           THEN /\ pc' = "raised"
                /\ ret' = <<Raised("AttributeError")>>
                /\ UNCHANGED <<image_data, ocr_results>>
           ELSE /\ pc' = "detect_check"
                /\ image_data' = h.image_data
                /\ ocr_results' = h.ocr_results
                /\ ret' = ret
    /\ UNCHANGED <<cfg, doc, fidx, valuable, discarded, flog, didx, enriched, dlog>>

\* line 169, condition false; line 176
DetectSkip ==
    /\ pc = "detect_check"
    /\ ~detector_applies(cfg, doc.ext, image_data)
    /\ pc' = "done"
    /\ ret' = <<Returned(image_data)>>
    /\ UNCHANGED <<cfg, doc, image_data, fidx, valuable, discarded, flog,
                   ocr_results, didx, enriched, dlog>>

\* lines 169-170: enrich_images_with_context is entered
DetectStart ==
    /\ pc = "detect_check"
    /\ detector_applies(cfg, doc.ext, image_data)
    /\ pc' = "enrich"
    /\ UNCHANGED <<cfg, doc, image_data, fidx, valuable, discarded, flog,
                   ocr_results, didx, enriched, dlog, ret>>

\* lines 170 and 176: image_data is what the detector returned
ExtractReturn ==
    /\ pc = "enrich_returned"
    /\ image_data' = ret[1].images
    /\ pc' = "done"
    /\ UNCHANGED <<cfg, doc, fidx, valuable, discarded, flog, ocr_results, didx,
                   enriched, dlog, ret>>

Next ==
    \/ Extract
    \/ FilterSkip
    \/ FilterStart
    \/ FilterStep
    \/ FilterHandOff
    \/ DetectSkip
    \/ DetectStart
    \/ EnrichStep
    \/ EnrichReturn
    \/ ExtractReturn

Spec == Init /\ [][Next]_vars

(***************************************************************************)
(* Properties of the image value filter.                                   *)
(***************************************************************************)
ZeroOCR ==
    [ char_count |-> 0, digit_count |-> 0, word_count |-> 0,
      useful_word_count |-> 0, has_numbers |-> FALSE ]
GateReasons == {"Muy pequena", "Area insuficiente", "Proporcion extrema"}
\* a call whose image passed the dimension gate: OCR metrics were returned
PassedGate(call) == call.ocr # <<>>
Area(call) == call.img.width * call.img.height
\* textDensity >= minTextDensity, with textDensity = charCount*10000/area
\* (for a whole-number threshold the quotient may be truncated)
DenseEnough(call) ==
    (call.ocr[1].char_count * 10000) \div Area(call) >= cfg.min_text_density

\* C5: for an image that passed the dimension gate (and has a positive area,
\* so that the density is defined), is_valuable_image keeps the image iff
\* not (requireNumbers and digitCount < minDigits) and one of: enough digits
\* and density, enough useful words and density, digitCount >= 2*minDigits;
\* with requireNumbers and too few digits the result is the "no numbers"
\* discard whatever the words and the density are.
C5_DecisionMatrix ==
    \A i \in 1..Len(flog) :
        LET call == flog[i]
            m == call.ocr[1]
        IN  (PassedGate(call) /\ Area(call) > 0) =>
              /\ call.keep <=>
                   /\ ~(cfg.require_numbers /\ m.digit_count < cfg.min_digits)
                   /\ \/ m.digit_count >= cfg.min_digits /\ DenseEnough(call)
                      \/ m.useful_word_count >= cfg.min_words /\ DenseEnough(call)
                      \/ m.digit_count >= 2 * cfg.min_digits
              /\ (cfg.require_numbers /\ m.digit_count < cfg.min_digits) =>
                   (~call.keep /\ call.reason.kind = "Sin numeros")
\* reached: requireNumbers discards an image with enough words and density
C5_Witness ==
    \E i \in 1..Len(flog) :
        /\ PassedGate(flog[i]) /\ Area(flog[i]) > 0
        /\ cfg.require_numbers
        /\ flog[i].ocr[1].digit_count < cfg.min_digits
        /\ flog[i].ocr[1].useful_word_count >= cfg.min_words
        /\ DenseEnough(flog[i])
        /\ flog[i].reason.kind = "Sin numeros"

\* C6: for an image with both sides at least 1 (the quotient max/min is
\* defined), the dimension gate discards iff both sides are below
\* minDimension, or the area is below minArea, or max(w,h)/min(w,h) > 10;
\* one side alone below minDimension is not "too small", and a ratio of
\* exactly 10 is not "extreme".
C6_DimensionGate ==
    \A i \in 1..Len(flog) :
        LET call == flog[i]
            w == call.img.width
            h == call.img.height
        IN  (w >= 1 /\ h >= 1) =>
              /\ (~PassedGate(call)) <=>
                   \/ w < cfg.min_dimension /\ h < cfg.min_dimension
                   \/ w * h < cfg.min_area
                   \/ Max(w, h) > 10 * Min(w, h)
              /\ (~PassedGate(call)) => (~call.keep /\ call.reason.kind \in GateReasons)
              /\ ((w < cfg.min_dimension) # (h < cfg.min_dimension)) =>
                   call.reason.kind # "Muy pequena"
              /\ (Max(w, h) = 10 * Min(w, h)) => call.reason.kind # "Proporcion extrema"
\* reached: an image with one side below minDimension passes the gate
C6_Witness ==
    \E i \in 1..Len(flog) :
        /\ flog[i].img.width >= 1
        /\ flog[i].img.width < cfg.min_dimension
        /\ flog[i].img.height >= cfg.min_dimension
        /\ PassedGate(flog[i])

\* C7 (as claimed): when OCR fails for an image that passed the gate, the
\* metrics are all zero and the image is discarded with the reason
\* "ocr failure".
C7_AsClaimed ==
    \A i \in 1..Len(flog) :
        (flog[i].ocr_calls = 1 /\ flog[i].engine.raised) =>
          /\ flog[i].ocr = <<ZeroOCR>>
          /\ ~flog[i].keep
          /\ flog[i].reason.kind = "ocr failure"
\* C7 (amended): when OCR fails for an image that passed the gate, the call
\* still returns, the metrics are all zero, and the decision matrix runs on
\* them: with minDigits >= 1 and (minTextDensity >= 1 or minWords >= 1) the
\* image is discarded, with the "Sin numeros" reason when requireNumbers is
\* set and with the "Probable logo/banner" reason otherwise.
C7_OcrFailureDegrades ==
    \A i \in 1..Len(flog) :
        (flog[i].ocr_calls = 1 /\ flog[i].engine.raised) =>
          /\ flog[i].ocr = <<ZeroOCR>>
          /\ ( /\ cfg.min_digits >= 1
               /\ (cfg.min_text_density >= 1 \/ cfg.min_words >= 1) ) =>
                 /\ ~flog[i].keep
                 /\ flog[i].reason.kind =
                      IF cfg.require_numbers THEN "Sin numeros"
                      ELSE "Probable logo/banner"
\* reached: a failed OCR under the default thresholds, discarded as a logo
C7_Witness ==
    \E i \in 1..Len(flog) :
        /\ flog[i].ocr_calls = 1 /\ flog[i].engine.raised
        /\ cfg.min_digits = DefaultMinDigits /\ ~cfg.require_numbers
        /\ ~flog[i].keep
        /\ flog[i].reason.kind = "Probable logo/banner"

\* C17: under the default configuration an image whose width and height
\* are both below minDimension is discarded with the "Muy pequena" reason,
\* which names its width and height, whatever the OCR engine would read:
\* the area and the proportion are not looked at, nor is OCR run.
C17_TooSmallFirst ==
    \A i \in 1..Len(flog) :
        LET call == flog[i]
        IN  ( /\ cfg = DefaultConfig
              /\ call.img.width < DefaultMinDimension
              /\ call.img.height < DefaultMinDimension ) =>
                /\ ~call.keep
                /\ call.reason = Reason("Muy pequena",
                                         <<Arg("width", call.img.width),
                                           Arg("height", call.img.height)>>)
                /\ call.ocr_calls = 0
\* reached: a 50x50 image under the defaults, the OCR engine ready to read
\* a dense table from it
C17_Witness ==
    \E i \in 1..Len(flog) :
        /\ cfg = DefaultConfig
        /\ flog[i].img.width = 50 /\ flog[i].img.height = 50
        /\ ~flog[i].engine.raised /\ flog[i].engine.digits >= 4
        /\ flog[i].engine.chars = 240
        /\ flog[i].reason.kind = "Muy pequena"

\* C15: for a fixed image, fixed OCR tallies and all other thresholds
\* fixed, a filter with a higher min_digits or min_words keeps nothing that
\* the filter with the lower ones discards.
C15_RaisingNeverKeeps ==
    (pc = "returned" /\ Len(flog) = 2) => (flog[2].keep => flog[1].keep)
\* reached: the higher min_digits turns a keep for its digits into a discard
C15_Witness ==
    /\ pc = "returned" /\ Len(flog) = 2
    /\ doc.raise[1] > 0 /\ doc.raise[2] = 0
    /\ flog[1].keep /\ flog[1].reason.kind = "Datos numericos"
    /\ ~flog[2].keep

\* C22: for an image that fails the dimension gate is_valuable_image does
\* not invoke analyze_image_ocr and returns no OCR result (None).
C22_GateBeforeOcr ==
    \A i \in 1..Len(flog) :
        ~check_dimensions(cfg, flog[i].img).ok =>
            (flog[i].ocr_calls = 0 /\ flog[i].ocr = <<>> /\ ~flog[i].keep)
\* reached: an image of extreme proportion is discarded without OCR, the
\* engine ready to read a dense table from it
C22_Witness ==
    \E i \in 1..Len(flog) :
        /\ flog[i].reason.kind = "Proporcion extrema"
        /\ ~flog[i].engine.raised /\ flog[i].engine.chars = 240
        /\ flog[i].ocr_calls = 0 /\ flog[i].ocr = <<>>

\* the signals of a call, as the thresholds of cfg judge them
FewDigits(call) == call.ocr[1].digit_count < cfg.min_digits
FewWords(call) == call.ocr[1].useful_word_count < cfg.min_words
\* charCount * 10000 / area < minTextDensity
Sparse(call) == call.ocr[1].char_count * 10000 < cfg.min_text_density * Area(call)
\* the decision fell through every case of the matrix
FellThrough(call) ==
    /\ PassedGate(call) /\ Area(call) > 0
    /\ ~call.keep
    /\ ~(cfg.require_numbers /\ FewDigits(call))
Names(args) == [ k \in 1..Len(args) |-> args[k].sig ]

\* C23: when the decision matrix falls through to discard, the reason
\* lists the failed ones of the three signals (digits, useful words,
\* density), each with its value, in this order, and lists at least one;
\* an 800x600 image in which OCR finds nothing is, under the defaults,
\* discarded with all three listed, each with the value zero.
C23_DiscardReasons ==
    \A i \in 1..Len(flog) :
        LET call == flog[i]
            args == call.reason.args
        IN  /\ FellThrough(call) =>
                /\ call.reason.kind = "Probable logo/banner"
                /\ Names(args) =
                     (IF FewDigits(call) THEN <<"nums">> ELSE <<>>)
                     \o (IF FewWords(call) THEN <<"palabras utiles">> ELSE <<>>)
                     \o (IF Sparse(call) THEN <<"densidad">> ELSE <<>>)
                /\ args # <<>>
                /\ \A k \in 1..Len(args) :
                     args[k].val =
                         IF args[k].sig = "nums" THEN call.ocr[1].digit_count
                         ELSE IF args[k].sig = "palabras utiles"
                         THEN call.ocr[1].useful_word_count
                         ELSE density_tenths(call.ocr[1].char_count, Area(call))
            /\ ( /\ cfg = DefaultConfig
                 /\ call.img.width = 800 /\ call.img.height = 600
                 /\ ~call.engine.raised
                 /\ call.engine.digits = 0 /\ call.engine.useful = 0
                 /\ call.engine.chars = 0 ) =>
                   /\ ~call.keep
                   /\ call.reason =
                        Reason("Probable logo/banner",
                               <<Arg("nums", 0), Arg("palabras utiles", 0),
                                 Arg("densidad", 0)>>)
\* reached: the 800x600 image of Scenario B, OCR finding nothing
C23_Witness ==
    \E i \in 1..Len(flog) :
        /\ cfg = DefaultConfig
        /\ flog[i].img.width = 800 /\ flog[i].img.height = 600
        /\ flog[i].ocr_calls = 1 /\ ~flog[i].engine.raised
        /\ flog[i].ocr[1] = ZeroOCR
        /\ Len(flog[i].reason.args) = 3

BelowOcrThreshold(L) == L.ocr_numbers < cfg.ocr_number_threshold
ManyContextNumbers(L) == L.context_numbers >= 2 * cfg.min_nearby_numbers

\* C8: the detector makes an image composite exactly when it is a chart
\* candidate, contextNumbers >= minNearbyNumbers, and ocrNumbers is below
\* ocrNumberThreshold (confidence becomes min(0.95, number-derived + 0.2)) or
\* contextNumbers >= 2*minNearbyNumbers (confidence stays number-derived);
\* otherwise it is not composite and the confidence is unchanged.  So a
\* candidate with ocrNumbers = 0 and 8 context numbers under
\* minNearbyNumbers = 3 is composite with a confidence of at most 0.95.
C8_CompositeDecision ==
    \A i \in 1..Len(dlog) :
        LET L == dlog[i]
        IN  /\ L.is_composite <=>
                 /\ L.is_potential
                 /\ L.context_numbers >= cfg.min_nearby_numbers
                 /\ (BelowOcrThreshold(L) \/ ManyContextNumbers(L))
            /\ enriched[i].is_composite = L.is_composite
            /\ L.confidence =
                 IF L.is_composite /\ BelowOcrThreshold(L)
                 THEN Min(95, L.number_confidence + 20)
                 ELSE L.number_confidence
            /\ ( /\ L.is_potential /\ L.ocr_numbers = 0 /\ L.context_numbers = 8
                 /\ cfg.min_nearby_numbers = 3 ) =>
                   (enriched[i].is_composite /\ L.confidence <= 95)
\* reached: ocrNumbers = 0, 8 context numbers, minNearbyNumbers = 3, and the
\* boost of 0.9 capped at 0.95
C8_Witness ==
    \E i \in 1..Len(dlog) :
        /\ dlog[i].ocr_numbers = 0 /\ dlog[i].context_numbers = 8
        /\ cfg.min_nearby_numbers = 3 /\ cfg.ocr_number_threshold >= 1
        /\ enriched[i].is_composite
        /\ dlog[i].number_confidence = 90 /\ dlog[i].confidence = 95

HasContextText(img) == img.context_text # <<>> /\ img.context_text[1] # <<>>

\* C9 (as claimed): for every configuration, an image record with
\* isComposite = true has a non-empty contextText.
C9_AsClaimed ==
    \A i \in 1..Len(enriched) : enriched[i].is_composite => HasContextText(enriched[i])
\* C9 (amended): for every configuration with minNearbyNumbers >= 1 and
\* every page layout, an image record with isComposite = true has a
\* non-empty contextText.
C9_CompositeHasContext ==
    cfg.min_nearby_numbers >= 1 =>
        \A i \in 1..Len(enriched) :
            enriched[i].is_composite => HasContextText(enriched[i])
\* reached: a composite image, with its context text, under the defaults
C9_Witness ==
    /\ cfg.min_nearby_numbers = DefaultMinNearbyNumbers
    /\ \E i \in 1..Len(enriched) :
         enriched[i].is_composite /\ HasContextText(enriched[i])

\* C10: the confidence of every image lies in [0, 1], as found from the
\* context numbers and as left by the composite decision; the boosted
\* confidence never exceeds 0.95; an image without a bbox is no exception.
C10_ConfidenceRange ==
    \A i \in 1..Len(dlog) :
        /\ dlog[i].number_confidence \in 0..100
        /\ dlog[i].confidence \in 0..100
        /\ (dlog[i].is_composite /\ BelowOcrThreshold(dlog[i])) => dlog[i].confidence <= 95
\* reached: an image without a bbox whose confidence 0.0 is boosted to 0.2
C10_Witness ==
    \E i \in 1..Len(dlog) :
        /\ enriched[i].bbox = <<>>
        /\ dlog[i].is_composite /\ BelowOcrThreshold(dlog[i])
        /\ dlog[i].number_confidence = 0 /\ dlog[i].confidence = 20

\* the blocks of the page of image i
BlocksOfPage(i) ==
    LET page == dlog[i].before.page_number
    IN  IF page \in 1..Len(doc.blocks) THEN doc.blocks[page] ELSE <<>>
\* a group of texts under its tag
Tagged(tag, text) == tag \o strip(text)
\* contextText is set exactly when the image is composite or has a group,
\* and is the tagged overlapping group, then the tagged nearby group
ContextTextAsBuilt(i) ==
    LET L == dlog[i]
        e == enriched[i]
        over == L.overlapping_text
        near == L.nearby_text
    IN  /\ e.context_text # <<>> <=> (L.is_composite \/ over # <<>> \/ near # <<>>)
        /\ SobreImagen # CercaDeImagen
        /\ e.context_text # <<>> =>
             e.context_text[1] =
                 IF over # <<>> /\ near # <<>>
                 THEN Tagged(SobreImagen, over) \o <<"\n">> \o Tagged(CercaDeImagen, near)
                 ELSE IF over # <<>> THEN Tagged(SobreImagen, over)
                 ELSE IF near # <<>> THEN Tagged(CercaDeImagen, near)
                 ELSE <<>>
NoContextAtAll(i) == enriched[i].context_text = <<>> /\ ~enriched[i].is_composite

\* C11 (as claimed): contextText is set iff the image is composite or has
\* overlapping or nearby text, as the tagged overlapping group then the
\* tagged nearby group; an image with no text block on its page is left
\* with contextText unset and isComposite false.
C11_AsClaimed ==
    \A i \in 1..Len(dlog) :
        /\ ContextTextAsBuilt(i)
        /\ BlocksOfPage(i) = <<>> => NoContextAtAll(i)
\* C11 (amended): as claimed, the last part for configurations with
\* minNearbyNumbers >= 1 only.
C11_ContextText ==
    \A i \in 1..Len(dlog) :
        /\ ContextTextAsBuilt(i)
        /\ (cfg.min_nearby_numbers >= 1 /\ BlocksOfPage(i) = <<>>) => NoContextAtAll(i)
\* reached: an image that is not composite, with both groups in contextText
C11_Witness ==
    \E i \in 1..Len(dlog) :
        /\ dlog[i].overlapping_text # <<>> /\ dlog[i].nearby_text # <<>>
        /\ ~enriched[i].is_composite
        /\ enriched[i].context_text # <<>>
        /\ cfg.min_nearby_numbers >= 1

\* Scenario C: the defaults, a 300x200 image at (100,100,400,300) on a
\* 612x792 page, one text block on the page, overlapping, with exactly
\* minNearbyNumbers numbers
ScenarioC(i) ==
    /\ cfg = DefaultConfig
    /\ doc.size[1] = <<612, 792>>
    /\ dlog[i].before.width = 300 /\ dlog[i].before.height = 200
    /\ enriched[i].bbox = <<100, 100, 400, 300>>
    /\ Len(BlocksOfPage(i)) = 1
    /\ _boxes_overlap(enriched[i].bbox, BlocksOfPage(i)[1].bbox)
    /\ _count_numbers_in_text(BlocksOfPage(i)[1].text) = DefaultMinNearbyNumbers

\* C18 (as claimed): in Scenario C the image passes the candidate gate and
\* is composite with a confidence of at least 0.7, whatever digit count the
\* Filter recorded for it.
C18_AsClaimed ==
    \A i \in 1..Len(dlog) :
        ScenarioC(i) =>
            /\ dlog[i].is_potential
            /\ enriched[i].is_composite
            /\ dlog[i].confidence >= 70
\* C18 (amended): in Scenario C the image passes the candidate gate with 3
\* context numbers; it is composite, with confidence 0.9, when the digit
\* count recorded for it is below ocrNumberThreshold (2) or absent, and is
\* not composite, with confidence 0.7, when that count is 2 or more.
C18_ScenarioC ==
    \A i \in 1..Len(dlog) :
        ScenarioC(i) =>
            /\ dlog[i].is_potential
            /\ dlog[i].context_numbers = 3
            /\ IF dlog[i].ocr_numbers < DefaultOcrNumberThreshold
               THEN enriched[i].is_composite /\ dlog[i].confidence = 90
               ELSE ~enriched[i].is_composite /\ dlog[i].confidence = 70
\* reached: Scenario C with 2 digits recorded for the image: not composite
C18_Witness ==
    \E i \in 1..Len(dlog) :
        /\ ScenarioC(i)
        /\ dlog[i].ocr_numbers = 2
        /\ ~enriched[i].is_composite
        /\ enriched[i].context_text # <<>>

\* the images extracted from the page of image i, and the positions the
\* detector resolves on that page
ImagesOnPage(i) ==
    LET page == dlog[i].before.page_number
    IN  IF page \in 1..Len(doc.imgs) THEN Len(doc.imgs[page]) ELSE 0
PositionsOnPage(i) ==
    LET page == dlog[i].before.page_number
    IN  IF page \in 1..Len(doc.pos) THEN Len(dict_values(doc.pos[page], 1)) ELSE 0

\* C19 (as claimed): an image without a bbox, on a page with more images
\* than resolvable positions or more positions than images, is left
\* without a bbox, not composite and without contextText, and is in the
\* list the detector returns.
C19_AsClaimed ==
    \A i \in 1..Len(dlog) :
        (dlog[i].before.bbox = <<>> /\ ImagesOnPage(i) # PositionsOnPage(i)) =>
            /\ enriched[i].bbox = <<>>
            /\ ~enriched[i].is_composite
            /\ enriched[i].context_text = <<>>
            /\ pc \in {"enrich_returned", "done"} =>
                 \E j \in 1..Len(ret[1].images) :
                     ret[1].images[j].filename = dlog[i].before.filename

\* C21 (as claimed): enrich_images_with_context returns its input images in
\* the same order and number; on each record filename, page, path, width
\* and height are unchanged, a bbox that was present is unchanged, and the
\* computed confidence is stored on the record.
C21_AsClaimed ==
    pc = "enrich_returned" =>
        /\ Len(ret[1].images) = Len(dlog)
        /\ \A i \in 1..Len(dlog) :
             LET before == dlog[i].before
                 after  == ret[1].images[i]
             IN  /\ after.filename = before.filename
                 /\ after.page_number = before.page_number
                 /\ after.path = before.path
                 /\ after.width = before.width
                 /\ after.height = before.height
                 /\ before.bbox # <<>> => after.bbox = before.bbox
                 /\ "confidence" \in DOMAIN after
                 /\ after.confidence = dlog[i].confidence

\* the image bbox with margin m added on its four sides
Expanded(box, m) == <<box[1] - m, box[2] - m, box[3] + m, box[4] + m>>
TextsOf(blocks) == [ k \in 1..Len(blocks) |-> blocks[k].text ]
\* the blocks of the page of image i that overlap its bbox, in page order
OverlappingBlocks(i) ==
    SelectSeq(BlocksOfPage(i), LAMBDA b : _boxes_overlap(enriched[i].bbox, b.bbox))
\* those that do not, but overlap the bbox expanded by proximityMargin
NearbyBlocks(i) ==
    SelectSeq(BlocksOfPage(i),
              LAMBDA b : /\ ~_boxes_overlap(enriched[i].bbox, b.bbox)
                         /\ _boxes_overlap(Expanded(enriched[i].bbox, cfg.proximity_margin),
                                           b.bbox))

\* C24: for an image with a bbox, the overlapping text is the space-joined
\* texts, in page order, of the blocks whose bbox overlaps the image bbox;
\* the nearby text that of the blocks that do not overlap it but overlap it
\* expanded by proximityMargin; no block is in both groups, and a block in
\* neither adds nothing.
C24_ContextPartition ==
    \A i \in 1..Len(dlog) :
        enriched[i].bbox # <<>> =>
            /\ dlog[i].overlapping_text = join_space(TextsOf(OverlappingBlocks(i)))
            /\ dlog[i].nearby_text = join_space(TextsOf(NearbyBlocks(i)))
            /\ Len(OverlappingBlocks(i)) + Len(NearbyBlocks(i)) <= Len(BlocksOfPage(i))
\* reached: a page with a nearby block followed by an overlapping one
C24_Witness ==
    \E i \in 1..Len(dlog) :
        /\ enriched[i].bbox # <<>>
        /\ Len(BlocksOfPage(i)) = 2
        /\ dlog[i].nearby_text = BlocksOfPage(i)[1].text
        /\ dlog[i].overlapping_text = BlocksOfPage(i)[2].text
        /\ BlocksOfPage(i)[1].text # BlocksOfPage(i)[2].text

\* the confidence the claim gives to n numbers in the context
TierOf(n) ==
    IF n >= 2 * cfg.min_nearby_numbers THEN 90
    ELSE IF n >= cfg.min_nearby_numbers THEN 70
    ELSE IF n >= 1 THEN 40
    ELSE 10
NoTextAtAll(i) == dlog[i].overlapping_text = <<>> /\ dlog[i].nearby_text = <<>>
\* for an image with a bbox the confidence found from the context is the
\* tier of the count of numbers in the combined context text
ConfidenceIsTier(i) ==
    LET L == dlog[i]
        n == _count_numbers_in_text(L.overlapping_text \o <<" ">> \o L.nearby_text)
    IN  enriched[i].bbox # <<>> => L.number_confidence = TierOf(n)
\* the confidence does not fall as the count rises
NonDecreasing ==
    \A n \in 0..(2 * Max(cfg.min_nearby_numbers, 1)) :
        number_confidence(cfg, n) <= number_confidence(cfg, n + 1)

\* C25 (as claimed): for an image with a bbox the number-derived confidence
\* is 0.9, 0.7, 0.4 or 0.1 by the count n of numbers in the combined context
\* text, is non-decreasing in n, and is 0.1 for an image with no nearby or
\* overlapping text.
C25_AsClaimed ==
    /\ NonDecreasing
    /\ \A i \in 1..Len(dlog) :
         /\ ConfidenceIsTier(i)
         /\ (enriched[i].bbox # <<>> /\ NoTextAtAll(i)) => dlog[i].number_confidence = 10
\* C25 (amended): as claimed, the confidence of an image with no nearby or
\* overlapping text being 0.1 when minNearbyNumbers >= 1 (and 0.9 when
\* minNearbyNumbers <= 0).
C25_NumberConfidence ==
    /\ NonDecreasing
    /\ \A i \in 1..Len(dlog) :
         /\ ConfidenceIsTier(i)
         /\ (enriched[i].bbox # <<>> /\ NoTextAtAll(i)) =>
              dlog[i].number_confidence = IF cfg.min_nearby_numbers >= 1 THEN 10 ELSE 90
\* reached: one number in the context, under the defaults: 0.4
C25_Witness ==
    \E i \in 1..Len(dlog) :
        /\ cfg = DefaultConfig
        /\ enriched[i].bbox # <<>>
        /\ dlog[i].context_numbers = 1
        /\ dlog[i].number_confidence = 40

\* bbox area / page area >= minPageRatio, for the page size handed to
\* _is_potential_chart
RatioReached(i) ==
    LET box == enriched[i].bbox
    IN  (box[3] - box[1]) * (box[4] - box[2]) * cfg.min_page_ratio[2]
            >= cfg.min_page_ratio[1] * dlog[i].page_width * dlog[i].page_height

\* C26: an image is a chart candidate iff width >= minChartWidth and
\* height >= minChartHeight and, when its bbox is known, bbox area / page
\* area >= minPageRatio; without a bbox the two pixel conditions decide.
C26_ChartCandidate ==
    \A i \in 1..Len(dlog) :
        dlog[i].is_potential <=>
            /\ enriched[i].width >= cfg.min_chart_width
            /\ enriched[i].height >= cfg.min_chart_height
            /\ enriched[i].bbox # <<>> => RatioReached(i)
\* reached: a 300x200 image that covers 8% of its page is no candidate
C26_Witness ==
    \E i \in 1..Len(dlog) :
        /\ enriched[i].width = 300 /\ enriched[i].height = 200
        /\ enriched[i].bbox = SmallBox
        /\ dlog[i].page_width = 612 /\ dlog[i].page_height = 792
        /\ ~dlog[i].is_potential

\* C27 (as claimed): the page size used in the candidate gate for an image
\* on page p is the width and height of page p.
C27_AsClaimed ==
    \A i \in 1..Len(dlog) :
        LET page == dlog[i].before.page_number
        IN  /\ dlog[i].page_width = doc.size[page][1]
            /\ dlog[i].page_height = doc.size[page][2]

\* the (imageIdentity, bbox) list of the page of image i
PositionListOf(i) ==
    LET page == dlog[i].before.page_number
    IN  IF page \in 1..Len(doc.pos) THEN doc.pos[page] ELSE <<>>

\* C28 (as claimed): an image without a bbox, of extraction index k on its
\* page, receives the bbox of the k-th entry of the page's position list,
\* also when an image identity occurs at several positions; an image with
\* a bbox keeps it.
C28_AsClaimed ==
    \A i \in 1..Len(dlog) :
        LET before == dlog[i].before
            k == before.filename[2]
        IN  /\ (before.bbox = <<>> /\ k < Len(PositionListOf(i))) =>
                 enriched[i].bbox = PositionListOf(i)[k + 1][2]
            /\ before.bbox # <<>> => enriched[i].bbox = before.bbox

\* the image of iteration L has no entry in the map, or there is no map
NoOcrEntry(L) == ocr_results = <<>> \/ ~HasKey(ocr_results, L.before.filename)

\* C30: an image whose filename has no entry in the filename -> digit count
\* map, or for which no map is given, has ocrNumbers = 0; with
\* ocrNumberThreshold >= 1 every such candidate image with
\* contextNumbers >= minNearbyNumbers is composite, its confidence being
\* the number confidence raised by 0.2 and capped at 0.95.
C30_AbsentMeansZero ==
    \A i \in 1..Len(dlog) :
        NoOcrEntry(dlog[i]) =>
            /\ dlog[i].ocr_numbers = 0
            /\ (/\ cfg.ocr_number_threshold >= 1
                /\ dlog[i].is_potential
                /\ dlog[i].context_numbers >= cfg.min_nearby_numbers) =>
                   /\ dlog[i].is_composite
                   /\ enriched[i].is_composite
                   /\ dlog[i].confidence = Min(95, dlog[i].number_confidence + 20)
\* a candidate image with enough context numbers, enriched with a map that
\* has entries but none for it
C30_Witness ==
    \E i \in 1..Len(dlog) :
        /\ ocr_results # <<>>
        /\ ~HasKey(ocr_results, dlog[i].before.filename)
        /\ cfg.ocr_number_threshold >= 1
        /\ dlog[i].is_potential
        /\ dlog[i].context_numbers >= cfg.min_nearby_numbers
        /\ dlog[i].context_numbers > 0
        /\ enriched[i].is_composite

(***************************************************************************)
(* Properties of _boxes_overlap and _boxes_nearby.                         *)
(***************************************************************************)
WellFormed(box) == box[1] <= box[3] /\ box[2] <= box[4]
Malformed(box) == box[3] < box[1] \/ box[4] < box[2]
Degenerate(box) == box[1] = box[3] \/ box[2] = box[4]
\* the two rectangles have more than an edge or a corner in common
IntersectBeyondEdges(a, b) ==
    a[1] < b[3] /\ b[1] < a[3] /\ a[2] < b[4] /\ b[2] < a[4]
OverlapCalled == pc \in {"_boxes_nearby", "returned"} /\ Len(ret) >= 1
NearbyCalled == pc = "returned" /\ Len(ret) = 2

\* C12 (as claimed): for rectangles with x0 <= x1 and y0 <= y1, Overlaps is
\* true iff they intersect, touching edges and corners not counting.
C12_AsClaimed ==
    (OverlapCalled /\ WellFormed(doc.box1) /\ WellFormed(doc.box2)) =>
        (ret[1].overlap <=> IntersectBeyondEdges(doc.box1, doc.box2))

\* C13: Overlaps(a, b) = Overlaps(b, a) for all pairs of rectangles, the
\* degenerate and the malformed ones included.
C13_OverlapSymmetric ==
    OverlapCalled => (ret[1].overlap = ret[1].swapped)
\* reached: a malformed and a degenerate rectangle that overlap, both ways
C13_Witness ==
    /\ OverlapCalled
    /\ Malformed(doc.box1) /\ Degenerate(doc.box2) /\ doc.box1 # doc.box2
    /\ ret[1].overlap /\ ret[1].swapped

\* C14: Nearby(a, b, 0) = Overlaps(a, b) for all pairs of rectangles.
C14_NearbyZeroMargin ==
    (NearbyCalled /\ doc.margin = 0) => (ret[2].nearby = ret[1].overlap)
\* reached: with margin 0, two rectangles one point apart are neither
\* nearby nor overlapping
C14_Witness ==
    /\ NearbyCalled /\ doc.margin = 0
    /\ WellFormed(doc.box1) /\ WellFormed(doc.box2)
    /\ doc.box1[3] + 1 = doc.box2[1]
    /\ ~ret[2].nearby /\ ~ret[1].overlap

\* C20 (as claimed): an image whose bbox is malformed (x1 < x0 or y1 < y0)
\* is left by enrich_images_with_context without contextText and not
\* composite, and the call returns every image of the batch.
C20_AsClaimed ==
    /\ \A i \in 1..Len(dlog) :
         (enriched[i].bbox # <<>> /\ Malformed(enriched[i].bbox)) =>
             (enriched[i].context_text = <<>> /\ ~enriched[i].is_composite)
    /\ pc = "enrich_returned" =>
         (ret[1].kind = "return" /\ Len(ret[1].images) = Len(image_data))

(***************************************************************************)
(* Properties of DocumentExtractor.extract.                                *)
(***************************************************************************)
\* what extraction yields for the document (extract, lines 141-146)
ExtractedImages ==
    IF doc.ext = ".pdf" THEN extract_pdf(doc)
    ELSE IF doc.ext \in {".ppt", ".pptx"} THEN extract_pptx(doc)
    ELSE <<>>
Terminated == pc \in {"done", "raised"}
\* filter_images has been entered and image_data is still its argument
InFilterImages == pc = "filter" \/ (pc = "raised" /\ flog # <<>>)
\* filter_images has returned
FilterImagesReturned == pc = "raised" /\ flog # <<>>
OcrFailed(call) == call.ocr_calls = 1 /\ call.engine = OcrRaises

RECURSIVE Chosen(_, _, _)
\* the images among the first n whose decision is `keep`, in input order
Chosen(images, n, keep) ==
    IF n = 0 THEN <<>>
    ELSE IF flog[n].keep = keep
         THEN Append(Chosen(images, n - 1, keep), images[n])
         ELSE Chosen(images, n - 1, keep)

\* C1: filter_images partitions its input: every image it has looked at is,
\* unmodified, in exactly one of valuable and discarded, each list in input
\* order; when it returns it has looked at every image, also after an OCR
\* failure on an earlier one.
C1_FilterPartition ==
    InFilterImages =>
        /\ Len(flog) = fidx
        /\ \A i \in 1..fidx : flog[i].img = image_data[i]
        /\ valuable = Chosen(image_data, fidx, TRUE)
        /\ discarded = Chosen(image_data, fidx, FALSE)
        /\ Len(valuable) + Len(discarded) = fidx
        /\ \A i \in 1..fidx :
             (\E j \in 1..Len(valuable) : valuable[j] = image_data[i])
                 # (\E j \in 1..Len(discarded) : discarded[j] = image_data[i])
        /\ FilterImagesReturned => fidx = Len(image_data)
\* reached: filter_images has returned; OCR failed on the first of two
\* images, the second was still analysed and kept, and a third outcome:
\* both lists are non-empty
C1_Witness ==
    /\ FilterImagesReturned
    /\ Len(image_data) = 2
    /\ OcrFailed(flog[1])
    /\ flog[2].ocr_calls = 1 /\ flog[2].keep
    /\ valuable = <<image_data[2]>> /\ discarded = <<image_data[1]>>

\* C2 (as claimed): when extract ends, the caller has received a result
\* for every extracted image: none is missing from what was returned.
C2_AsClaimed ==
    Terminated =>
        \A i \in 1..Len(ExtractedImages) :
            /\ ret # <<>>
            /\ ret[1].kind = "return"
            /\ \E j \in 1..Len(ret[1].images) :
                 ret[1].images[j].filename = ExtractedImages[i].filename

\* the digit count the filter's OCR found for the image named f
FilterDigitCount(f) ==
    LET calls == SelectSeq(flog, LAMBDA call : call.img.filename = f /\ call.ocr # <<>>)
    IN  IF calls = <<>> THEN 0 ELSE calls[1].ocr[1].digit_count

\* C3 (as claimed): with the filter enabled and at least one image
\* extracted, the hand-off of the OCR digit counts completes without error,
\* and the ocrNumbers the Detector uses for a kept image is the digit count
\* the Filter found for it.
C3_AsClaimed ==
    (cfg.filter_enabled /\ ExtractedImages # <<>>) =>
        /\ pc # "raised"
        /\ \A k \in 1..Len(dlog) :
             dlog[k].ocr_numbers = FilterDigitCount(dlog[k].before.filename)

KeptByFilter(f) == \E j \in 1..Len(flog) : flog[j].img.filename = f /\ flog[j].keep
ProcessedByDetector(f) == \E k \in 1..Len(dlog) : dlog[k].before.filename = f

====
